---- MODULE Spec2Model ----
(***************************************************************************)
(* StandX maker / Lighter hedger: the order-stream callback, the fill      *)
(* handler, the control loop and the two venues they talk to.              *)
(*                                                                         *)
(* Scheduling.  The bot runs on one asyncio event loop.  A coroutine keeps *)
(* the loop until it reaches an await that really suspends: the Lighter    *)
(* SDK calls and asyncio.sleep.  The StandX HTTP calls (place, cancel,     *)
(* query) are blocking calls inside "async def" bodies, so they never      *)
(* yield.  One action of the model is therefore one run of a coroutine     *)
(* from one suspension point to the next; the venues act between actions.  *)
(*                                                                         *)
(* Numbers.  Quantities are integers (one unit = the smallest fill).       *)
(* Prices are integers; percentages are kept in units of 1/10000 (PctDen)  *)
(* and int(Decimal) is Trunc.                                              *)
(***************************************************************************)
EXTENDS Integers, Sequences, FiniteSets, TLC

(***************************** bounds *************************************)
\* orders the StandX venue accepts in one run (later placements are refused)
MaxOrders == 4
\* fill-handler tasks the order stream can spawn in one run
MaxTasks == 2
\* fills the StandX venue makes in one run
MaxFills == 2
\* once this many exchange calls have failed, the calls of later steps succeed
MaxFaults == 1
\* changes of the mark price in one run
MaxMoves == 1
\* fills, failed calls and price changes together in one run
MaxEvents == 2

(************************* program constants ******************************)
PctDen == 10000
\* trading.spread_percentage 0.1 / 100
spread_pct == 10
\* strategy.cancel_distance_percentage 0.05 / 100
cancel_threshold == 5
\* strategy.close_spread_percentage 0.01 / 100
close_spread_pct == 1
\* strategy.close_order_update_threshold 0.05 / 100
close_update_threshold == 5
\* trading.order_size, in quantity units
order_size == 2
\* risk_management.max_position_size, in quantity units
max_position_size == 1
\* risk_management.max_open_orders
max_open_orders == 10
\* ceiling and retained size of processed_fills
PROCESSED_FILLS_CEILING == 1000
PROCESSED_FILLS_KEEP == 500
\* strategy.hedge_immediately
hedge_immediately == TRUE

\* the mark prices of the StandX venue
Marks == {90000, 90100}
Sides == {"buy", "sell"}

Opposite(side) == IF side = "buy" THEN "sell" ELSE "buy"
Signed(side, q) == IF side = "buy" THEN q ELSE 0 - q
Abs(x) == IF x < 0 THEN 0 - x ELSE x
\* int(d) of a Decimal n/d: truncation towards zero
Trunc(n, d) == IF n >= 0 THEN n \div d ELSE 0 - ((0 - n) \div d)

(***************************** identifiers ********************************)
\* The venue numbers its orders 1, 2, ...; the order stream and
\* query_open_orders carry that id.  The placement response carries a
\* request_id, a different token that int() rejects.  cl_ord_id is what the
\* client attached to the placement; it is unique per order.
RequestId(n) == 0 - n
ClOrdId(n) == n
NumericId(k) == k > 0

VARIABLES
    venue,      \* StandX: [orders, position, msgs: queue of notifications, mark]
    budget,     \* the environment so far: [fills, faults, moves]
    delivered,  \* fill notifications the callback has been handed
    standx,     \* StandXMarketMaker: active_orders, processed_fills, close_order_ids
    bot,        \* StandXMakerHedger: close-order tracking, loop protection
    risk,       \* RiskManager: emergency_stop, daily_pnl, total_pnl and the two limits
    lighter,    \* LighterHedger: enabled, current_position
    lx,         \* Lighter venue: position, resting hedge quantity, stuck
    tasks,      \* fill-handler tasks created by the callback
    loop,       \* the control loop coroutine: pc and locals
    window,     \* history of the current group of overlapping hedge calls
    sm,         \* a StateMachine object
    wsm         \* a StandXWebSocketManager object and its socket

BotVars == <<venue, budget, delivered, standx, bot, risk, lighter, lx, tasks, loop, window, wsm>>
vars == <<venue, budget, delivered, standx, bot, risk, lighter, lx, tasks, loop, window, sm, wsm>>

\* run() has been started and has not shut down
Running == loop.pc \notin {"off", "ws"}

(************************ the synchronous world ***************************)
\* What the blocking StandX code reads and writes in one go.
World == [venue |-> venue, budget |-> budget, standx |-> standx, bot |-> bot,
          risk |-> risk, ret |-> 0]

Commit(w) ==
    /\ venue' = w.venue
    /\ budget' = w.budget
    /\ standx' = w.standx
    /\ bot' = w.bot
    /\ risk' = w.risk

OpenIds(w) == {n \in 1..Len(w.venue.orders) : w.venue.orders[n].status = "open"}

Notification(w, n) ==
    LET o == w.venue.orders[n]
    IN [id |-> n, status |-> o.status, side |-> o.side, price |-> o.price,
        qty |-> o.qty, fill_qty |-> o.fill_qty]

Spent == budget.fills + budget.faults + budget.moves
MayFail == budget.faults < MaxFaults /\ Spent < MaxEvents
\* the outcomes an exchange call of this step can have: TRUE is success
Oks == IF MayFail THEN BOOLEAN ELSE {TRUE}
Fault(w, ok) == IF ok THEN w ELSE [w EXCEPT !.budget.faults = @ + 1]

\* what get_ticker can report in this step: the mark price, 0 on failure
TickerMarks == IF MayFail THEN {venue.mark, 0} ELSE {venue.mark}

Drop(f, keys) == [k \in DOMAIN f \ keys |-> f[k]]
Put(f, k, v) == [x \in DOMAIN f \cup {k} |-> IF x = k THEN v ELSE f[x]]

(**************************** RiskManager *********************************)
force_stop_Skipped(w) == w

force_stop(w) == [w EXCEPT !.risk.emergency_stop = TRUE]

can_open_position_NoSizeLimit(w, position_size) ==
    /\ ~w.risk.emergency_stop
    /\ ~(w.risk.daily_pnl <= 0 - w.risk.max_daily_loss)

can_open_position(w, position_size) ==
    /\ ~w.risk.emergency_stop
    /\ ~(Abs(position_size) > max_position_size)
    /\ ~(w.risk.daily_pnl <= 0 - w.risk.max_daily_loss)

can_place_order(w, current_open_orders) ==
    /\ ~w.risk.emergency_stop
    /\ ~(current_open_orders >= max_open_orders)

\* update_pnl(0.0): the counters move by 0, then check_emergency_stop
check_emergency_stop(w) ==
    IF \/ w.risk.daily_pnl <= 0 - w.risk.max_daily_loss
       \/ w.risk.total_pnl <= 0 - w.risk.emergency_stop_loss
    THEN force_stop(w) ELSE w

update_pnl(w) == check_emergency_stop(w)

(************************** StandXMarketMaker *****************************)
\* place_order: the venue accepts (ok) or the HTTP call raises.  On success
\* the order is tracked under the response's request_id.
place_order(w, side, price, qty, ok) ==
    IF ok /\ Len(w.venue.orders) < MaxOrders
    THEN LET n == Len(w.venue.orders) + 1
             o == [side |-> side, price |-> price, qty |-> qty, fill_qty |-> 0,
                   status |-> "open", is_close |-> FALSE]
             info == [side |-> side, price |-> price, qty |-> qty,
                      status |-> "pending", cl_ord_id |-> ClOrdId(n)]
         IN [w EXCEPT !.venue.orders = Append(@, o),
                      !.standx.active_orders = Put(@, RequestId(n), info),
                      !.ret = n]
    ELSE [Fault(w, ok) EXCEPT !.ret = 0]

mark_as_close_order(w, order_id) ==
    [w EXCEPT !.standx.close_order_ids = @ \cup {order_id}]

\* cancel_orders(None): every tracked key; only the numeric ones are sent.
cancel_orders(w, ok) ==
    LET order_ids == DOMAIN w.standx.active_orders
        order_id_list == {k \in order_ids : NumericId(k)}
        hit == order_id_list \cap OpenIds(w)
        cancelled == [n \in 1..Len(w.venue.orders) |->
                        IF n \in hit THEN [w.venue.orders[n] EXCEPT !.status = "cancelled"]
                        ELSE w.venue.orders[n]]
        w1 == [w EXCEPT !.venue.orders = cancelled]
        ids == SelectSeq([n \in 1..Len(w.venue.orders) |-> n], LAMBDA n : n \in hit)
        w2 == [w1 EXCEPT !.venue.msgs = @ \o [i \in 1..Len(ids) |-> Notification(w1, ids[i])]]
    IN IF order_ids = {} THEN [w EXCEPT !.ret = 1]
       ELSE IF order_id_list # {} /\ ~ok THEN [Fault(w, ok) EXCEPT !.ret = 0]
       ELSE [w2 EXCEPT !.standx.active_orders = Drop(@, order_ids), !.ret = 1]

\* sync_open_orders: active_orders becomes the venue's open orders, keyed by
\* venue id.  processed_fills is cut to PROCESSED_FILLS_KEEP entries of
\* list(set), an order Python does not define: keep says which of the ids
\* of this run survive, the rest of the quota goes to older ids.
sync_open_orders(w, ok, keep) ==
    LET new_active == [n \in OpenIds(w) |->
                          [side |-> w.venue.orders[n].side, price |-> w.venue.orders[n].price,
                           qty |-> w.venue.orders[n].qty, status |-> "open",
                           cl_ord_id |-> ClOrdId(n)]]
        pf == w.standx.processed_fills
        over == Cardinality(pf) + w.standx.processed_older > PROCESSED_FILLS_CEILING
    IN IF ~ok THEN Fault(w, ok)
       ELSE [w EXCEPT !.standx.active_orders = new_active,
                      !.standx.processed_fills = IF over THEN keep ELSE pf,
                      !.standx.processed_older =
                          IF over THEN PROCESSED_FILLS_KEEP - Cardinality(keep) ELSE @,
                      !.standx.close_order_ids = @ \cap DOMAIN new_active]

\* the subsets of processed_fills a cut may retain
KeepChoices(w) ==
    IF Cardinality(w.standx.processed_fills) + w.standx.processed_older > PROCESSED_FILLS_CEILING
    THEN {k \in SUBSET w.standx.processed_fills :
             /\ Cardinality(k) <= PROCESSED_FILLS_KEEP
             /\ PROCESSED_FILLS_KEEP - Cardinality(k) <= w.standx.processed_older}
    ELSE {w.standx.processed_fills}

\* get_position: the venue's position, or 0 when the query raises
get_position(w, ok) == [Fault(w, ok) EXCEPT !.ret = IF ok THEN w.venue.position ELSE 0]

\* get_ticker: the mark price, or 0 when the query raises
get_ticker(w, mark) == [Fault(w, mark # 0) EXCEPT !.ret = mark]

on_ws_order_update_AnyId(w, m) ==
    IF m.fill_qty > 0 /\ m.id \notin w.standx.processed_fills
    THEN [w EXCEPT !.standx.processed_fills = @ \cup {m.id},
                   !.standx.active_orders = Drop(@, {m.id}),
                   !.ret = 1]
    ELSE [w EXCEPT !.ret = 0]

\* _on_ws_order_update.  ret = 1 when the fill handler is scheduled.
on_ws_order_update(w, m) ==
    LET order_id == m.id
        ao == w.standx.active_orders
    IN IF order_id \notin DOMAIN ao THEN [w EXCEPT !.ret = 0]
       ELSE IF m.fill_qty > 0
            THEN IF order_id \in w.standx.processed_fills
                 THEN [w EXCEPT !.standx.active_orders = Drop(@, {order_id}), !.ret = 0]
                 ELSE IF order_id \in w.standx.close_order_ids
                      THEN [w EXCEPT !.standx.processed_fills = @ \cup {order_id},
                                     !.standx.close_order_ids = @ \ {order_id},
                                     !.standx.active_orders = Drop(@, {order_id}),
                                     !.ret = 0]
                      ELSE [w EXCEPT !.standx.processed_fills = @ \cup {order_id},
                                     !.standx.active_orders = Drop(@, {order_id}),
                                     !.ret = 1]
            ELSE IF m.status \in {"cancelled", "canceled", "rejected"}
                 THEN [w EXCEPT !.standx.active_orders = Drop(@, {order_id}),
                                !.standx.close_order_ids = @ \ {order_id},
                                !.ret = 0]
                 ELSE [w EXCEPT !.standx.active_orders[order_id].status = m.status,
                                !.ret = 0]

(************************** StandXMakerHedger ******************************)
BidPrice(mark) == Trunc(mark * PctDen - mark * spread_pct, PctDen)
AskPrice(mark) == Trunc(mark * PctDen + mark * spread_pct, PctDen)

ClosePrice_Swapped(side, mark) ==
    IF side = "buy" THEN Trunc(mark * PctDen + mark * close_spread_pct, PctDen)
    ELSE Trunc(mark * PctDen - mark * close_spread_pct, PctDen)

\* close_price = float(int(mark -/+ mark * close_spread_pct))
ClosePrice(side, mark) ==
    IF side = "buy" THEN Trunc(mark * PctDen - mark * close_spread_pct, PctDen)
    ELSE Trunc(mark * PctDen + mark * close_spread_pct, PctDen)

\* place_close_order.  ret = the venue's number of the order placed, or 0.
\* is_close on the venue's record is history: it marks the orders this
\* function placed.
place_close_order(w, side, quantity, mark, ok) ==
    IF mark <= 0 THEN [get_ticker(w, mark) EXCEPT !.ret = 0]
    ELSE LET w1 == place_order(get_ticker(w, mark), side, ClosePrice(side, mark), quantity, ok)
             n == w1.ret
         IN IF n # 0
            THEN [mark_as_close_order(w1, RequestId(n)) EXCEPT
                     !.bot.close_order_cl_ord_id = ClOrdId(n),
                     !.bot.close_order_price = ClosePrice(side, mark),
                     !.bot.close_order_side = side,
                     !.venue.orders[n].is_close = TRUE]
            ELSE w1

place_market_making_orders(w, mark, ok_bid, ok_ask) ==
    IF mark <= 0 THEN get_ticker(w, mark)
    ELSE IF ~can_place_order(w, Cardinality(DOMAIN w.standx.active_orders))
    THEN get_ticker(w, mark)
    ELSE LET w1 == place_order(get_ticker(w, mark), "buy", BidPrice(mark), order_size, ok_bid)
         IN place_order(w1, "sell", AskPrice(mark), order_size, ok_ask)

ClearCloseTracking(w) ==
    [w EXCEPT !.bot.close_order_id = 0, !.bot.close_order_cl_ord_id = 0,
              !.bot.close_order_price = 0, !.bot.close_order_side = "none"]

(****************************** venues ************************************)
\* The StandX venue fills q units of an open order and reports it.
VenueFill(n, q) ==
    /\ Running
    /\ budget.fills < MaxFills
    /\ Spent < MaxEvents
    /\ n \in OpenIds(World)
    /\ q \in 1..(venue.orders[n].qty - venue.orders[n].fill_qty)
    /\ LET o == venue.orders[n]
           o2 == [o EXCEPT !.fill_qty = @ + q,
                           !.status = IF o.fill_qty + q = o.qty THEN "filled" ELSE "open"]
           w1 == [World EXCEPT !.venue.orders[n] = o2,
                               !.venue.position = @ + Signed(o.side, q)]
       IN venue' = [w1.venue EXCEPT !.msgs = Append(@, Notification(w1, n))]
    /\ budget' = [budget EXCEPT !.fills = @ + 1]
    /\ UNCHANGED <<sm, wsm, delivered, standx, bot, risk, lighter, lx, tasks, loop, window>>

\* The mark price moves.
MarkMove(mark) ==
    /\ Running
    /\ budget.moves < MaxMoves
    /\ Spent < MaxEvents
    /\ mark # venue.mark
    /\ venue' = [venue EXCEPT !.mark = mark]
    /\ budget' = [budget EXCEPT !.moves = @ + 1]
    /\ UNCHANGED <<sm, wsm, delivered, standx, bot, risk, lighter, lx, tasks, loop, window>>

\* The Lighter venue executes the hedge orders resting on its book.
LighterMatch ==
    /\ Running
    /\ lx.resting # 0
    /\ lx' = [lx EXCEPT !.position = lx.position + lx.resting, !.resting = 0]
    /\ UNCHANGED <<sm, wsm, venue, budget, delivered, standx, bot, risk, lighter, tasks, loop, window>>

(*************************** order stream *********************************)
\* The acknowledgement of an open order: status open, nothing filled.
Ack(n) == [id |-> n, status |-> "open", side |-> venue.orders[n].side,
           price |-> venue.orders[n].price, qty |-> venue.orders[n].qty, fill_qty |-> 0]

NewTask(m) ==
    [order_id |-> m.id, side |-> m.side, qty |-> m.fill_qty, pc |-> "scheduled",
     refused |-> FALSE, stop_at_start |-> FALSE, calls |-> 0, submitted |-> 0,
     hedged |-> "no", close_id |-> 0, close_mark |-> 0 - 1]

\* The stream hands a notification m to _on_ws_order_update.
Receive(w, m) ==
    /\ LET w1 == on_ws_order_update(w, m)
       IN /\ w1.ret = 1 => Len(tasks) < MaxTasks
          /\ Commit(w1)
          /\ tasks' = IF w1.ret = 1 THEN Append(tasks, NewTask(m)) ELSE tasks
    /\ delivered' = IF m.fill_qty > 0 THEN delivered \cup {m} ELSE delivered
    /\ UNCHANGED <<sm, wsm, lighter, lx, loop, window>>

\* the next notification of the venue's queue
WsDeliver ==
    /\ venue.msgs # <<>>
    /\ Receive([World EXCEPT !.venue.msgs = Tail(@)], Head(venue.msgs))

\* the acknowledgement of order n
WsAck(n) ==
    /\ n \in 1..Len(venue.orders)
    /\ Receive(World, Ack(n))

\* The callback on its own, before run(): a fill of an order this bot
\* never placed.
Foreign == [id |-> MaxOrders + 1, status |-> "filled", side |-> "buy", price |-> 90000,
            qty |-> 1, fill_qty |-> 1]

WsForeign ==
    /\ loop.pc = "off"
    /\ Receive(World, Foreign)

(**************************** fill handler ********************************)
\* history of a group of overlapping place_hedge_order calls: the tracked
\* position when the first entered, the signed quantities of the calls that
\* succeeded, and the tracked position when the last one returned
WindowEnter(side) ==
    IF window.open = 0
    THEN [open |-> 1, base |-> lighter.current_position, sum |-> 0, n |-> 0,
          overlap |-> FALSE, failed |-> FALSE, sides |-> {side},
          after |-> lighter.current_position]
    ELSE [window EXCEPT !.open = @ + 1, !.overlap = TRUE, !.sides = @ \cup {side}]

WindowExit(ok, sq, pos_after) ==
    [window EXCEPT !.open = @ - 1,
                   !.sum = IF ok THEN @ + sq ELSE @,
                   !.n = IF ok THEN @ + 1 ELSE @,
                   !.failed = @ \/ ~ok,
                   !.after = pos_after]

SetTask(i, t) == [tasks EXCEPT ![i] = t]

\* handle_standx_order_fill up to its first suspension: the risk check, then
\* place_hedge_order up to the await of fetch_bbo_prices.
HandlerStart(i) ==
    /\ Running
    /\ i \in 1..Len(tasks)
    /\ tasks[i].pc = "scheduled"
    /\ LET t == [tasks[i] EXCEPT !.stop_at_start = risk.emergency_stop]
           w == World
       IN IF ~can_open_position(w, t.qty)
          THEN /\ Commit(force_stop(w))
               /\ tasks' = SetTask(i, [t EXCEPT !.pc = "done", !.refused = TRUE])
               /\ UNCHANGED window
          ELSE IF ~hedge_immediately
          THEN /\ Commit(w)
               /\ tasks' = SetTask(i, [t EXCEPT !.pc = "done"])
               /\ UNCHANGED window
          ELSE IF ~lighter.enabled
          THEN /\ Commit(force_stop(w))
               /\ tasks' = SetTask(i, [t EXCEPT !.pc = "done", !.calls = 1, !.hedged = "failed"])
               /\ UNCHANGED window
          ELSE /\ Commit(w)
               /\ tasks' = SetTask(i, [t EXCEPT !.pc = "bbo", !.calls = 1])
               /\ window' = WindowEnter(Opposite(t.side))
    /\ UNCHANGED <<sm, wsm, delivered, lighter, lx, loop>>

\* fetch_bbo_prices returns (or raises); on success create_order is awaited.
HandlerBbo(i) ==
    /\ Running
    /\ i \in 1..Len(tasks)
    /\ tasks[i].pc = "bbo"
    /\ \E ok \in Oks :
          IF ok
          THEN /\ tasks' = SetTask(i, [tasks[i] EXCEPT !.pc = "create", !.submitted = @ + 1])
               /\ Commit(World)
               /\ UNCHANGED window
          ELSE /\ Commit(force_stop(Fault(World, ok)))
               /\ tasks' = SetTask(i, [tasks[i] EXCEPT !.pc = "done", !.hedged = "failed"])
               /\ window' = WindowExit(FALSE, 0, lighter.current_position)
    /\ UNCHANGED <<sm, wsm, delivered, lighter, lx, loop>>

\* create_order returns.  An error ends the handler in force_stop.  On
\* success the tracked position moves, update_pnl(0.0) runs and
\* place_close_order places the close order on the hedge side.
HandlerCreate(i) ==
    /\ Running
    /\ i \in 1..Len(tasks)
    /\ tasks[i].pc = "create"
    /\ LET t == tasks[i]
           hedge_side == Opposite(t.side)
           sq == Signed(hedge_side, t.qty)
       IN \E res \in {"filled", "resting"} \cup {r \in {"error"} : FALSE \in Oks} :
            IF res = "error"
            THEN /\ Commit(force_stop(Fault(World, FALSE)))
                 /\ tasks' = SetTask(i, [t EXCEPT !.pc = "done", !.hedged = "failed"])
                 /\ window' = WindowExit(FALSE, 0, lighter.current_position)
                 /\ UNCHANGED <<lighter, lx>>
            ELSE /\ lighter' = [lighter EXCEPT !.current_position = @ + sq]
                 /\ lx' = IF res = "filled" THEN [lx EXCEPT !.position = @ + sq]
                          ELSE [lx EXCEPT !.resting = @ + sq]
                 /\ window' = WindowExit(TRUE, sq, lighter.current_position + sq)
                 /\ \E mark \in TickerMarks, ok \in Oks :
                      LET w2 == place_close_order(update_pnl(World), hedge_side, t.qty, mark, ok)
                      IN /\ Commit(w2)
                         /\ tasks' = SetTask(i, [t EXCEPT !.pc = "done", !.hedged = "ok",
                                                          !.close_id = w2.ret,
                                                          !.close_mark = mark])
    /\ UNCHANGED <<sm, wsm, delivered, loop>>

(**************************** control loop ********************************)
\* close_lighter_hedge's max_retries
max_retries == 3
\* max_close_attempts
max_close_attempts == 10

\* tracked_at_call: the close_order_cl_ord_id that check_and_manage_close_orders
\* found tracked when it was called.  submitted: the create_market_order
\* calls of the running close_lighter_hedge.
LoopAt(pc) == [pc |-> pc, standx_pos |-> 0, lighter_pos |-> 0, snap_ok |-> FALSE,
               snap |-> 0, attempt |-> 0, after |-> "none", tracked_at_call |-> 0,
               submitted |-> 0]

\* the coroutine suspends (or ends) with this state
Finish(w, lt, lp) ==
    /\ Commit(w)
    /\ lighter' = lt
    /\ loop' = lp

\* LighterHedger.get_position: the request goes out and the venue answers
\* with its position of that moment (or the query fails); the answer is
\* read when the coroutine resumes.
AwaitLighterPosition(w, lt, lp) ==
    \E ok \in Oks :
        Finish(Fault(w, ok), lt, [lp EXCEPT !.snap_ok = ok, !.snap = IF ok THEN lx.position ELSE 0])

LighterAfterAnswer == IF loop.snap_ok THEN [lighter EXCEPT !.current_position = loop.snap]
                      ELSE lighter
LighterAnswer == IF loop.snap_ok THEN loop.snap ELSE 0

\* print_status_if_needed, then the sleep that ends the iteration
Status(w, lt) ==
    IF lt.enabled THEN AwaitLighterPosition(w, lt, LoopAt("status"))
    ELSE Finish(w, lt, LoopAt("tick"))

\* close_lighter_hedge returned: to the Lighter-only branch (after = "A",
\* main.py 309-319) or to the close-order branch (after = "B", 361-365)
ClhReturn(w, lt, lighter_pos, after) ==
    IF after = "A" THEN Finish(w, lt, [LoopAt("a_sleep") EXCEPT !.lighter_pos = lighter_pos])
    ELSE Status(ClearCloseTracking(w), lt)

ClhStart(w, lt, lighter_pos, after) ==
    IF lighter_pos = 0 THEN ClhReturn(w, lt, lighter_pos, after)
    ELSE Finish(w, lt, [LoopAt("clh_bbo") EXCEPT !.lighter_pos = lighter_pos,
                                                  !.attempt = 1, !.after = after])

\* an attempt of close_lighter_hedge did not close the position
ClhRetry(w, lt, submitted) ==
    IF loop.attempt < max_retries
    THEN Finish(w, lt, [LoopAt("clh_bbo") EXCEPT !.lighter_pos = loop.lighter_pos,
                                                  !.attempt = loop.attempt + 1,
                                                  !.after = loop.after,
                                                  !.submitted = submitted])
    ELSE ClhReturn(w, lt, loop.lighter_pos, loop.after)

\* main.py 398: StandXMarketMaker has no cancel_order, the call raises
\* AttributeError, check_and_manage_close_orders logs it and returns
adjust_close_order(w) == w

NeedsAdjustment(w, mark) ==
    LET price_diff == mark - w.bot.close_order_price
        beyond == Abs(price_diff) * PctDen > close_update_threshold * mark
    IN \/ w.bot.close_order_side = "sell" /\ price_diff > 0 /\ beyond
       \/ w.bot.close_order_side = "buy" /\ price_diff < 0 /\ beyond

\* the side of a close order for a position: sell for long, buy for short
CloseSide(position) == IF position > 0 THEN "sell" ELSE "buy"

\* check_and_manage_close_orders from line 267 to its next suspension
ManageBody(w, lt, standx_pos, lighter_pos) ==
    IF standx_pos = 0 /\ lighter_pos = 0
    THEN Status(IF w.bot.close_order_cl_ord_id # 0 THEN ClearCloseTracking(w) ELSE w, lt)
    ELSE IF w.bot.close_order_cl_ord_id = 0
    THEN IF standx_pos # 0
         THEN \E mark \in TickerMarks, ok \in Oks :
                 Status(place_close_order(w, CloseSide(standx_pos),
                                          Abs(standx_pos), mark, ok), lt)
         ELSE LET pos_key == lighter_pos
                  attempts == IF pos_key \in DOMAIN w.bot.lighter_close_attempts
                              THEN w.bot.lighter_close_attempts[pos_key] ELSE 0
              IN IF pos_key \in w.bot.lighter_close_blocked THEN Status(w, lt)
                 ELSE IF attempts >= max_close_attempts
                 THEN Status([w EXCEPT !.bot.lighter_close_blocked = @ \cup {pos_key}], lt)
                 ELSE ClhStart([w EXCEPT !.bot.lighter_close_attempts =
                                             Put(@, pos_key, attempts + 1)],
                               lt, lighter_pos, "A")
    ELSE IF w.bot.close_order_price # 0 /\ w.bot.close_order_side # "none"
    THEN \E mark \in TickerMarks :
           IF mark <= 0 THEN Status(get_ticker(w, mark), lt)
           ELSE \E ok_sync \in Oks : \E keep \in KeepChoices(w) :
             LET w1 == sync_open_orders(get_ticker(w, mark), ok_sync, keep)
                 found == {k \in DOMAIN w1.standx.active_orders :
                             w1.standx.active_orders[k].cl_ord_id = w1.bot.close_order_cl_ord_id}
             IN IF found = {}
                THEN \E ok_pos \in Oks :
                       LET w3 == get_position(w1, ok_pos)
                           standx_pos_after == w3.ret
                       IN IF standx_pos_after = 0 THEN ClhStart(w3, lt, lighter_pos, "B")
                          ELSE \E mark2 \in TickerMarks, ok \in Oks :
                                 Status(place_close_order(w3, CloseSide(standx_pos_after),
                                            Abs(standx_pos_after), mark2, ok), lt)
                ELSE LET real_id == CHOOSE k \in found : TRUE
                         w2 == IF w1.bot.close_order_id = 0
                               THEN mark_as_close_order(
                                        [w1 EXCEPT !.bot.close_order_id = real_id], real_id)
                               ELSE w1
                     IN IF NeedsAdjustment(w2, mark) THEN Status(adjust_close_order(w2), lt)
                        ELSE Status(w2, lt)
    ELSE Status(w, lt)

\* check_and_manage_close_orders up to the await of the Lighter position
ManageStart(w) ==
    \E ok_pos \in Oks :
        LET w1 == get_position(w, ok_pos)
            standx_pos == w1.ret
        IN IF lighter.enabled
           THEN AwaitLighterPosition(w1, lighter,
                    [LoopAt("m_pos") EXCEPT !.standx_pos = standx_pos,
                                            !.tracked_at_call = w.bot.close_order_cl_ord_id])
           ELSE ManageBody(w1, lighter, standx_pos, 0)

PlaceThenManage(w) ==
    \E mark \in TickerMarks, ok_bid \in Oks, ok_ask \in Oks :
        ManageStart(place_market_making_orders(w, mark, ok_bid, ok_ask))

TooClose(w, mark) ==
    \E k \in DOMAIN w.standx.active_orders :
        Abs(w.standx.active_orders[k].price - mark) * PctDen < cancel_threshold * mark

\* one iteration of run()'s loop up to its first suspension: the emergency
\* check (then shutdown), check_and_update_orders, and on
CheckAndUpdate(w) ==
    IF w.risk.emergency_stop
    THEN \E ok \in Oks : Finish(cancel_orders(w, ok), lighter, LoopAt("stopped"))
    ELSE \E mark \in TickerMarks :
           IF mark <= 0 THEN ManageStart(get_ticker(w, mark))
           ELSE \E ok_sync \in Oks : \E keep \in KeepChoices(w) :
             LET w1 == sync_open_orders(get_ticker(w, mark), ok_sync, keep)
             IN IF TooClose(w1, mark) \/ DOMAIN w1.standx.active_orders = {}
                THEN IF DOMAIN w1.standx.active_orders # {}
                     THEN \E ok \in Oks :
                            Finish(cancel_orders(w1, ok), lighter, LoopAt("replace"))
                     ELSE PlaceThenManage(w1)
                ELSE ManageStart(w1)

LoopFrame == UNCHANGED <<delivered, lx, tasks, window, sm, wsm>>

\* run(): the initial orders, then straight into the first iteration
Start ==
    /\ loop.pc = "start"
    /\ \E mark \in TickerMarks, ok_bid \in Oks, ok_ask \in Oks :
          CheckAndUpdate(place_market_making_orders(World, mark, ok_bid, ok_ask))
    /\ LoopFrame

Tick ==
    /\ loop.pc = "tick"
    /\ CheckAndUpdate(World)
    /\ LoopFrame

\* after cancel_orders and the one-second pause
Replace ==
    /\ loop.pc = "replace"
    /\ PlaceThenManage(World)
    /\ LoopFrame

ManagePos ==
    /\ loop.pc = "m_pos"
    /\ ManageBody(World, LighterAfterAnswer, loop.standx_pos, LighterAnswer)
    /\ LoopFrame

StatusPos ==
    /\ loop.pc = "status"
    /\ Finish(World, LighterAfterAnswer, LoopAt("tick"))
    /\ LoopFrame

\* close_lighter_hedge: fetch_bbo_prices of place_market_close_order returns
ClhBbo ==
    /\ loop.pc = "clh_bbo"
    /\ \E ok \in Oks :
          IF ok THEN Finish(World, lighter, [loop EXCEPT !.pc = "clh_create"])
          ELSE ClhRetry(Fault(World, ok), lighter, loop.submitted)
    /\ LoopFrame

CloseLighterSide_Same(lighter_pos) == IF lighter_pos < 0 THEN "sell" ELSE "buy"

\* close_side of close_lighter_hedge: buy for a short position, else sell
CloseLighterSide(lighter_pos) == IF lighter_pos < 0 THEN "buy" ELSE "sell"

\* a reduce-only market order moves the venue's position towards zero
ReduceOnly(pos, side, qty) ==
    IF side = "sell" /\ pos > 0 THEN (IF pos - qty < 0 THEN 0 ELSE pos - qty)
    ELSE IF side = "buy" /\ pos < 0 THEN (IF pos + qty > 0 THEN 0 ELSE pos + qty)
    ELSE pos

\* what create_market_order can answer in this step: refused, executed, or
\* accepted and not executed.  On a stuck venue (lx.stuck: no liquidity for
\* the reduce-only order) it is never executed.
CloseOutcomes ==
    IF lx.stuck THEN {"unfilled"} \cup {r \in {"error"} : FALSE \in Oks}
    ELSE {"executed"} \cup {r \in {"error", "unfilled"} : FALSE \in Oks}

\* create_market_order returns
ClhCreate ==
    /\ loop.pc = "clh_create"
    /\ \E res \in CloseOutcomes :
          IF res = "error"
          THEN ClhRetry(Fault(World, FALSE), lighter, loop.submitted + 1) /\ UNCHANGED lx
          ELSE /\ Finish(Fault(World, res = "executed" \/ lx.stuck), lighter,
                         [loop EXCEPT !.pc = "clh_sleep2", !.submitted = @ + 1])
               /\ lx' = IF res = "executed"
                        THEN [lx EXCEPT !.position =
                                 ReduceOnly(@, CloseLighterSide(loop.lighter_pos),
                                            Abs(loop.lighter_pos))]
                        ELSE lx
    /\ UNCHANGED <<sm, wsm, delivered, tasks, window>>

ClhSleep2 ==
    /\ loop.pc = "clh_sleep2"
    /\ AwaitLighterPosition(World, lighter, [loop EXCEPT !.pc = "clh_pos"])
    /\ LoopFrame

ClhPos ==
    /\ loop.pc = "clh_pos"
    /\ IF LighterAnswer = 0
       THEN ClhReturn(World, LighterAfterAnswer, loop.lighter_pos, loop.after)
       ELSE ClhRetry(World, LighterAfterAnswer, loop.submitted)
    /\ LoopFrame

ASleep ==
    /\ loop.pc = "a_sleep"
    /\ AwaitLighterPosition(World, lighter, [loop EXCEPT !.pc = "a_pos"])
    /\ LoopFrame

APos ==
    /\ loop.pc = "a_pos"
    /\ LET pos_key == loop.lighter_pos
           w == World
       IN IF LighterAnswer = 0
          THEN Status([w EXCEPT !.bot.lighter_close_attempts = Drop(@, {pos_key}),
                                !.bot.lighter_close_blocked = @ \ {pos_key}],
                      LighterAfterAnswer)
          ELSE Status(w, LighterAfterAnswer)
    /\ LoopFrame

(***************************** StateMachine ********************************)
\* main.py does not use the StateMachine; its methods are called here in
\* any order, with arguments from the sets below, on an object of its own.
\* _orders is a dict: a sequence in insertion order.  order_id 0 is None.
\* stale says that the state is older than PLACING_TIMEOUT.  ret is what
\* the last call of on_order_filled returned (-1 before the first call).
\* _previous_state, which nothing reads, is left out.
SmClOrdIds == {1, 2}
SmOrderIds == {1, 2}
SmQuantity == 2
\* the cumulative quantities a fill event reports: up to the order's
\* quantity, and one more than it
SmFilledQtys == 1..(SmQuantity + 1)
\* the cl_ord_id the caller gives its close order: the last one
SmCloseClOrdId == CHOOSE c \in SmClOrdIds : \A d \in SmClOrdIds : d <= c

SmInit == [state |-> "IDLE", orders |-> <<>>,
           order_id_map |-> [k \in {} |-> 0], pending_mm_orders |-> {},
           pending_cancel_orders |-> {}, stale |-> FALSE, ret |-> 0 - 1]

RemoveAt(seq, i) == [j \in 1..(Len(seq) - 1) |-> IF j < i THEN seq[j] ELSE seq[j + 1]]

\* the position of cl_ord_id in _orders, 0 when it is not a key
get_order(m, cl_ord_id) ==
    IF \E i \in 1..Len(m.orders) : m.orders[i].cl_ord_id = cl_ord_id
    THEN CHOOSE i \in 1..Len(m.orders) : m.orders[i].cl_ord_id = cl_ord_id
    ELSE 0

set_state(m, new_state) ==
    IF new_state # m.state
    THEN [m EXCEPT !.state = new_state, !.stale = FALSE]
    ELSE m

can_place_orders(m) ==
    IF m.state = "PLACING" THEN m.stale
    ELSE m.state \in {"IDLE", "MARKET_MAKING"}

can_cancel_orders(m) ==
    IF m.state = "HEDGING" THEN FALSE
    ELSE m.state \in {"MARKET_MAKING", "CLOSING"}

track_order(m, cl_ord_id, side, price, quantity, is_close_order) ==
    LET order == [cl_ord_id |-> cl_ord_id, order_id |-> 0, side |-> side, price |-> price,
                  quantity |-> quantity, filled_qty |-> 0, state |-> "PENDING",
                  is_close_order |-> is_close_order]
        i == get_order(m, cl_ord_id)
    IN IF i = 0 THEN [m EXCEPT !.orders = Append(@, order)]
       ELSE [m EXCEPT !.orders[i] = order]

get_order_by_id(m, order_id) ==
    IF order_id \in DOMAIN m.order_id_map THEN get_order(m, m.order_id_map[order_id])
    ELSE 0

get_market_making_orders(m) == {i \in 1..Len(m.orders) : ~m.orders[i].is_close_order}

CloseCandidates(m) ==
    {i \in 1..Len(m.orders) : m.orders[i].is_close_order
                              /\ m.orders[i].state \in {"PENDING", "OPEN"}}

\* the first close order, in dict order, that is PENDING or OPEN; 0 for None
get_close_order(m) ==
    IF CloseCandidates(m) = {} THEN 0
    ELSE CHOOSE i \in CloseCandidates(m) : \A j \in CloseCandidates(m) : i <= j

remove_order(m, cl_ord_id) ==
    LET i == get_order(m, cl_ord_id)
    IN IF i = 0 THEN m
       ELSE [m EXCEPT !.orders = RemoveAt(@, i),
                      !.order_id_map =
                          IF m.orders[i].order_id # 0 /\ m.orders[i].order_id \in DOMAIN @
                          THEN Drop(@, {m.orders[i].order_id}) ELSE @]

on_placing_orders(m, cl_ord_ids) ==
    set_state([m EXCEPT !.pending_mm_orders = cl_ord_ids], "PLACING")

on_order_confirmed(m, cl_ord_id, order_id) ==
    LET i == get_order(m, cl_ord_id)
        m1 == IF i # 0
              THEN [m EXCEPT !.orders[i].order_id = order_id, !.orders[i].state = "OPEN",
                             !.order_id_map = Put(@, order_id, cl_ord_id)]
              ELSE m
        m2 == [m1 EXCEPT !.pending_mm_orders = @ \ {cl_ord_id}]
    IN IF m2.pending_mm_orders = {} /\ m2.state = "PLACING"
       THEN set_state(m2, "MARKET_MAKING") ELSE m2

\* ret = the cl_ord_id of the order returned, 0 for None
on_order_filled(m, order_id, filled_qty) ==
    LET i == get_order_by_id(m, order_id)
    IN IF i = 0 THEN [m EXCEPT !.ret = 0]
       ELSE [m EXCEPT !.orders[i].filled_qty = filled_qty,
                      !.orders[i].state = IF filled_qty >= m.orders[i].quantity
                                          THEN "FILLED" ELSE "PARTIAL_FILLED",
                      !.ret = m.orders[i].cl_ord_id]

on_cancelling_orders(m, cl_ord_ids) ==
    set_state([m EXCEPT !.pending_cancel_orders = cl_ord_ids,
                        !.orders = [i \in 1..Len(m.orders) |->
                                       IF m.orders[i].cl_ord_id \in cl_ord_ids
                                       THEN [m.orders[i] EXCEPT !.state = "CANCELLING"]
                                       ELSE m.orders[i]]],
              "CANCELLING")

on_order_cancelled(m, order_id) ==
    LET i == get_order_by_id(m, order_id)
        m1 == IF i # 0
              THEN remove_order([m EXCEPT !.pending_cancel_orders = @ \ {m.orders[i].cl_ord_id}],
                                m.orders[i].cl_ord_id)
              ELSE m
    IN IF m1.pending_cancel_orders = {} /\ m1.state = "CANCELLING"
       THEN set_state(m1, "IDLE") ELSE m1

on_hedging_start(m) == set_state(m, "HEDGING")

on_hedging_complete(m) == set_state(m, "CLOSING")

on_close_order_filled(m) ==
    LET c == get_close_order(m)
        m1 == IF c # 0 THEN remove_order(m, m.orders[c].cl_ord_id) ELSE m
    IN IF get_market_making_orders(m1) # {} THEN set_state(m1, "MARKET_MAKING")
       ELSE set_state(m1, "IDLE")

on_position_closed(m) ==
    LET c == get_close_order(m)
        m1 == IF c # 0 THEN remove_order(m, m.orders[c].cl_ord_id) ELSE m
        active_mm == {i \in get_market_making_orders(m1) : m1.orders[i].state = "OPEN"}
    IN IF active_mm # {} THEN set_state(m1, "MARKET_MAKING")
       ELSE set_state(m1, "IDLE")

get_orders_to_cancel(m) ==
    {m.orders[i].cl_ord_id : i \in {j \in 1..Len(m.orders) :
                                       ~m.orders[j].is_close_order /\ m.orders[j].state = "OPEN"}}

clear_all(m) ==
    set_state([m EXCEPT !.orders = <<>>, !.order_id_map = [k \in {} |-> 0],
                        !.pending_mm_orders = {}, !.pending_cancel_orders = {}],
              "IDLE")

\* a call of a StateMachine method
SmCall(m) ==
    /\ loop.pc = "off"
    /\ sm' = m
    /\ UNCHANGED BotVars

SmTrack(cl_ord_id, side, is_close_order) ==
    SmCall(track_order(sm, cl_ord_id, side, 90000, SmQuantity, is_close_order))

\* the caller passes the market-making orders it has just tracked
SmPlacing ==
    SmCall(on_placing_orders(sm, {sm.orders[i].cl_ord_id :
              i \in {j \in get_market_making_orders(sm) : sm.orders[j].state = "PENDING"}}))

SmConfirmed(cl_ord_id, order_id) == SmCall(on_order_confirmed(sm, cl_ord_id, order_id))

SmFilled(order_id, filled_qty) == SmCall(on_order_filled(sm, order_id, filled_qty))

SmCancelling == SmCall(on_cancelling_orders(sm, get_orders_to_cancel(sm)))

SmCancelled(order_id) == SmCall(on_order_cancelled(sm, order_id))

SmHedgingStart == SmCall(on_hedging_start(sm))

SmHedgingComplete == SmCall(on_hedging_complete(sm))

SmCloseOrderFilled == SmCall(on_close_order_filled(sm))

SmPositionClosed == SmCall(on_position_closed(sm))

SmClearAll == SmCall(clear_all(sm))

SmRemove(cl_ord_id) == SmCall(remove_order(sm, cl_ord_id))

\* the state grows older than the timeout
SmAge ==
    /\ sm.state \in {"PLACING", "CANCELLING"}
    /\ ~sm.stale
    /\ SmCall([sm EXCEPT !.stale = TRUE])

NextSm ==
    \/ \E cl_ord_id \in SmClOrdIds :
          SmTrack(cl_ord_id, IF cl_ord_id = SmCloseClOrdId THEN "sell" ELSE "buy",
                  cl_ord_id = SmCloseClOrdId)
    \/ SmPlacing
    \/ \E cl_ord_id \in SmClOrdIds, order_id \in SmOrderIds : SmConfirmed(cl_ord_id, order_id)
    \/ \E order_id \in SmOrderIds, filled_qty \in SmFilledQtys : SmFilled(order_id, filled_qty)
    \/ SmCancelling
    \/ \E order_id \in SmOrderIds : SmCancelled(order_id)
    \/ SmHedgingStart
    \/ SmHedgingComplete
    \/ SmCloseOrderFilled
    \/ SmPositionClosed
    \/ SmClearAll
    \/ \E cl_ord_id \in SmClOrdIds : SmRemove(cl_ord_id)
    \/ SmAge

(************************ StandXWebSocketManager **************************)
\* The stream manager is exercised on its own, when loop.pc = "ws".
\* wsm.ws is _ws (0 for None, 1 for a connection object), wsm.open says
\* whether the socket of that connection is open, wsm.pc is where
\* _run_loop is suspended and wsm.stop where stop() is.
WsmInit == [running |-> FALSE, authenticated |-> FALSE, ws |-> 0, open |-> FALSE,
            pc |-> "new", stop |-> "none"]

\* what a received message is: the two answers to the authentication, and
\* a message of the order channel
WsmMessages == {"auth_success", "auth_failed", "order"}

is_ready(m) == m.authenticated /\ m.ws # 0

\* _handle_message, as far as the manager's own state goes
handle_message(m, msg) ==
    IF msg = "auth_success" THEN [m EXCEPT !.authenticated = TRUE]
    ELSE IF msg = "auth_failed" THEN [m EXCEPT !.authenticated = FALSE]
    ELSE m

\* _run_loop from the test of its while: a new connection attempt, or the
\* end of the loop
WsmAttempt(m) ==
    IF m.running THEN [m EXCEPT !.authenticated = FALSE, !.pc = "connect"]
    ELSE [m EXCEPT !.pc = "ended"]

WsmAfterTry_NoRetry(m) == [m EXCEPT !.pc = "ended"]

\* _run_loop after its try statement: the backoff, or the end of the loop
WsmAfterTry(m) ==
    IF m.running THEN [m EXCEPT !.pc = "sleep"] ELSE [m EXCEPT !.pc = "ended"]

\* leaving 'async with': the exit awaits the close of a socket that is still
\* open (_running is tested only after it); with the socket closed already
\* there is nothing to wait for
WsmLeave(m) ==
    IF m.open THEN [m EXCEPT !.pc = "closing"] ELSE WsmAfterTry(m)

\* the inner while: wait for the next message, or leave the connection
WsmListen(m) ==
    IF m.running THEN [m EXCEPT !.pc = "recv"] ELSE WsmLeave(m)

WsmCall(m) ==
    /\ loop.pc = "ws"
    /\ wsm' = m
    /\ UNCHANGED <<venue, budget, delivered, standx, bot, risk, lighter, lx, tasks, loop,
                   window, sm>>

\* start()
WsmStart ==
    /\ wsm.pc = "new"
    /\ WsmCall([wsm EXCEPT !.running = TRUE, !.pc = "top"])

\* the task of _run_loop runs for the first time
WsmBegin ==
    /\ wsm.pc = "top"
    /\ WsmCall(WsmAttempt(wsm))

\* websockets.connect returns a connection or raises
WsmConnect ==
    /\ wsm.pc = "connect"
    /\ \E ok \in BOOLEAN :
          WsmCall(IF ok THEN [wsm EXCEPT !.ws = 1, !.open = TRUE, !.pc = "send"]
                  ELSE WsmAfterTry([wsm EXCEPT !.authenticated = FALSE]))

\* _authenticate_and_subscribe: the send returns or raises
WsmSend ==
    /\ wsm.pc = "send"
    /\ \E ok \in BOOLEAN :
          WsmCall(IF ok /\ wsm.open THEN WsmListen(wsm)
                  ELSE WsmLeave([wsm EXCEPT !.authenticated = FALSE]))

\* ws.recv() returns a message
WsmRecv(msg) ==
    /\ wsm.pc = "recv"
    /\ wsm.open
    /\ WsmCall(WsmListen(handle_message(wsm, msg)))

\* ws.recv() raises ConnectionClosed: the socket is closed
WsmRecvClosed ==
    /\ wsm.pc = "recv"
    /\ ~wsm.open
    /\ WsmCall(WsmAfterTry([wsm EXCEPT !.authenticated = FALSE]))

\* ws.recv() raises another exception
WsmRecvError ==
    /\ wsm.pc = "recv"
    /\ wsm.open
    /\ WsmCall(WsmLeave([wsm EXCEPT !.authenticated = FALSE]))

\* the close of 'async with' has returned: the socket is closed, and the
\* exception that left the block, if any, reaches the outer handler
WsmClosed ==
    /\ wsm.pc = "closing"
    /\ WsmCall(WsmAfterTry([wsm EXCEPT !.open = FALSE]))

\* the five seconds of backoff are over
WsmSleepDone ==
    /\ wsm.pc = "sleep"
    /\ WsmCall(WsmAttempt(wsm))

\* the server or the network drops the connection
WsmDrop ==
    /\ wsm.open
    /\ WsmCall([wsm EXCEPT !.open = FALSE])

\* stop(), up to its first await.  _ws is the socket _run_loop is using
\* ("close"), or the socket of an earlier connection, closed already
\* ("close_old").
WsmStop ==
    /\ wsm.pc # "new"
    /\ wsm.stop = "none"
    /\ WsmCall([wsm EXCEPT !.running = FALSE,
                           !.stop = IF wsm.ws = 0 THEN "join"
                                    ELSE IF wsm.pc \in {"send", "recv"} THEN "close"
                                    ELSE "close_old"])

\* stop(): _ws.close() has returned, the socket it was called on is closed
WsmStopClose ==
    /\ wsm.stop \in {"close", "close_old"}
    /\ WsmCall([wsm EXCEPT !.open = IF wsm.stop = "close" THEN FALSE ELSE @,
                           !.stop = "join"])

\* stop(): the task of _run_loop has ended
WsmStopJoin ==
    /\ wsm.stop = "join"
    /\ wsm.pc = "ended"
    /\ WsmCall([wsm EXCEPT !.stop = "done"])

\* the steps _run_loop and stop() take by themselves
WsmProgress ==
    WsmBegin \/ WsmConnect \/ WsmSend \/ WsmRecvClosed \/ WsmClosed \/ WsmSleepDone
        \/ WsmStopClose \/ WsmStopJoin

NextWsm ==
    \/ WsmStart
    \/ WsmBegin
    \/ WsmConnect
    \/ WsmSend
    \/ \E msg \in WsmMessages : WsmRecv(msg)
    \/ WsmRecvClosed
    \/ WsmRecvError
    \/ WsmClosed
    \/ WsmSleepDone
    \/ WsmDrop
    \/ WsmStop
    \/ WsmStopClose
    \/ WsmStopJoin

(**************************** specification *******************************)
EmptyMap == [k \in {} |-> 0]

\* the state after construction, with processed_older ids of earlier orders
\* in processed_fills
InitWith(processed_older) ==
    /\ venue \in [orders : {<<>>}, position : {0}, msgs : {<<>>}, mark : {90000}]
    /\ budget = [fills |-> 0, faults |-> 0, moves |-> 0]
    /\ delivered = {}
    /\ loop \in {LoopAt("start"), LoopAt("off"), LoopAt("ws")}
    /\ standx \in [active_orders : {EmptyMap}, processed_fills : {{}},
                   processed_older : {processed_older}, close_order_ids : {{}}]
    /\ bot = [close_order_id |-> 0, close_order_cl_ord_id |-> 0, close_order_price |-> 0,
              close_order_side |-> "none", lighter_close_attempts |-> EmptyMap,
              lighter_close_blocked |-> {}]
    /\ risk \in [emergency_stop : {FALSE}, daily_pnl : {0}, total_pnl : {0},
                 max_daily_loss : {0, 500}, emergency_stop_loss : {0, 1000}]
    /\ risk.max_daily_loss = 0 => risk.emergency_stop_loss = 1000
    /\ lighter \in [enabled : BOOLEAN, current_position : {0}]
    /\ loop.pc \in {"off", "ws"} => lighter.enabled /\ risk.max_daily_loss = 500
                                                /\ risk.emergency_stop_loss = 1000
    /\ lx = [position |-> 0, resting |-> 0, stuck |-> FALSE]
    /\ tasks = <<>>
    /\ sm = SmInit
    /\ wsm = WsmInit
    /\ window = [open |-> 0, base |-> 0, sum |-> 0, n |-> 0, overlap |-> FALSE,
                 failed |-> FALSE, sides |-> {}, after |-> 0]

Init == InitWith(0)

\* A start with a position left on Lighter by an earlier run, on a venue
\* that does not execute reduce-only market orders: the bot is freshly
\* constructed, StandX is flat and has no orders.  The mark price stays
\* where it is in these runs.
InitResidual ==
    /\ venue \in [orders : {<<>>}, position : {0}, msgs : {<<>>}, mark : {90000}]
    /\ budget = [fills |-> 0, faults |-> 0, moves |-> MaxMoves]
    /\ delivered = {}
    /\ loop = LoopAt("start")
    /\ standx \in [active_orders : {EmptyMap}, processed_fills : {{}},
                   processed_older : {0}, close_order_ids : {{}}]
    /\ bot = [close_order_id |-> 0, close_order_cl_ord_id |-> 0, close_order_price |-> 0,
              close_order_side |-> "none", lighter_close_attempts |-> EmptyMap,
              lighter_close_blocked |-> {}]
    /\ risk = [emergency_stop |-> FALSE, daily_pnl |-> 0, total_pnl |-> 0,
               max_daily_loss |-> 500, emergency_stop_loss |-> 1000]
    /\ lighter = [enabled |-> TRUE, current_position |-> 0]
    /\ lx \in [position : {0 - 1, 1}, resting : {0}, stuck : {TRUE}]
    /\ tasks = <<>>
    /\ sm = SmInit
    /\ wsm = WsmInit
    /\ window = [open |-> 0, base |-> 0, sum |-> 0, n |-> 0, overlap |-> FALSE,
                 failed |-> FALSE, sides |-> {}, after |-> 0]

Next ==
    \/ Start
    \/ Tick
    \/ Replace
    \/ ManagePos
    \/ StatusPos
    \/ ClhBbo
    \/ ClhCreate
    \/ ClhSleep2
    \/ ClhPos
    \/ ASleep
    \/ APos
    \/ \E n \in 1..MaxOrders, q \in 1..order_size : VenueFill(n, q)
    \/ \E mark \in Marks : MarkMove(mark)
    \/ LighterMatch
    \/ WsDeliver
    \/ \E n \in 1..MaxOrders : WsAck(n)
    \/ WsForeign
    \/ \E i \in 1..MaxTasks : HandlerStart(i)
    \/ \E i \in 1..MaxTasks : HandlerBbo(i)
    \/ \E i \in 1..MaxTasks : HandlerCreate(i)
    \/ NextSm
    \/ NextWsm

Spec == Init /\ [][Next]_vars

\* A run that starts late in the life of the process: processed_fills
\* already holds PROCESSED_FILLS_CEILING ids of orders that are gone.
InitAged == InitWith(PROCESSED_FILLS_CEILING)

SpecAged == InitAged /\ [][Next]_vars

\* A start with a hedged position left by an earlier run: StandX long or
\* short by one unit, Lighter the opposite, no orders on StandX.
InitHolding ==
    /\ \E position \in {0 - 1, 1} :
          /\ venue = [orders |-> <<>>, position |-> position, msgs |-> <<>>, mark |-> 90000]
          /\ lx = [position |-> 0 - position, resting |-> 0, stuck |-> FALSE]
    /\ budget = [fills |-> 0, faults |-> 0, moves |-> 0]
    /\ delivered = {}
    /\ loop = LoopAt("start")
    /\ standx \in [active_orders : {EmptyMap}, processed_fills : {{}},
                   processed_older : {0}, close_order_ids : {{}}]
    /\ bot = [close_order_id |-> 0, close_order_cl_ord_id |-> 0, close_order_price |-> 0,
              close_order_side |-> "none", lighter_close_attempts |-> EmptyMap,
              lighter_close_blocked |-> {}]
    /\ risk = [emergency_stop |-> FALSE, daily_pnl |-> 0, total_pnl |-> 0,
               max_daily_loss |-> 500, emergency_stop_loss |-> 1000]
    /\ lighter = [enabled |-> TRUE, current_position |-> 0]
    /\ tasks = <<>>
    /\ sm = SmInit
    /\ wsm = WsmInit
    /\ window = [open |-> 0, base |-> 0, sum |-> 0, n |-> 0, overlap |-> FALSE,
                 failed |-> FALSE, sides |-> {}, after |-> 0]

\* A StateMachine on which a batch of two market-making orders has been
\* tracked, placed and confirmed: track_order('1'), track_order('2'),
\* on_placing_orders(['1', '2']), on_order_confirmed('1', '1'),
\* on_order_confirmed('2', '2').
SmBatch ==
    on_order_confirmed(
        on_order_confirmed(
            on_placing_orders(
                track_order(track_order(SmInit, 1, "buy", 90000, SmQuantity, FALSE),
                            2, "sell", 90000, SmQuantity, FALSE),
                {1, 2}),
            1, 1),
        2, 2)

InitBatch ==
    /\ venue = [orders |-> <<>>, position |-> 0, msgs |-> <<>>, mark |-> 90000]
    /\ budget = [fills |-> 0, faults |-> 0, moves |-> 0]
    /\ delivered = {}
    /\ loop = LoopAt("off")
    /\ standx = [active_orders |-> EmptyMap, processed_fills |-> {},
                 processed_older |-> 0, close_order_ids |-> {}]
    /\ bot = [close_order_id |-> 0, close_order_cl_ord_id |-> 0, close_order_price |-> 0,
              close_order_side |-> "none", lighter_close_attempts |-> EmptyMap,
              lighter_close_blocked |-> {}]
    /\ risk = [emergency_stop |-> FALSE, daily_pnl |-> 0, total_pnl |-> 0,
               max_daily_loss |-> 500, emergency_stop_loss |-> 1000]
    /\ lighter = [enabled |-> TRUE, current_position |-> 0]
    /\ lx = [position |-> 0, resting |-> 0, stuck |-> FALSE]
    /\ tasks = <<>>
    /\ sm = SmBatch
    /\ wsm = WsmInit
    /\ window = [open |-> 0, base |-> 0, sum |-> 0, n |-> 0, overlap |-> FALSE,
                 failed |-> FALSE, sides |-> {}, after |-> 0]

\* asyncio runs every coroutine that can continue: a connection attempt
\* ends, a send ends, a closed socket is noticed, the backoff ends, and
\* stop() goes on.
SpecLive == Init /\ [][Next]_vars /\ WF_vars(WsmProgress)

\* the StateMachine from its construction and from a confirmed batch
SpecBatch == (Init \/ InitBatch) /\ [][Next]_vars

\* runs of a fresh process and runs that start with positions left by an
\* earlier one
SpecRestart == (Init \/ InitResidual \/ InitHolding) /\ [][Next]_vars

(******************************* claims ***********************************)
TaskIds == 1..Len(tasks)
TasksOf(n) == {i \in TaskIds : tasks[i].order_id = n}
\* the step hands the head of the venue's queue to the callback
Delivers == venue.msgs # <<>> /\ venue.msgs' = Tail(venue.msgs)
MarketMaking(n) == n \in 1..Len(venue.orders) /\ ~venue.orders[n].is_close

\* C1: the fill notifications of one venue order id start the hedge handler
\* at most once, also after processed_fills has been cut and
\* sync_open_orders has put the order back into active_orders.
C1_OneHandlerPerOrderId == \A n \in 1..MaxOrders : Cardinality(TasksOf(n)) <= 1

\* C2: a fill notification for a market-making order that is still tracked
\* under its placement's request_id starts the hedge handler.
C2_FillBeforeSyncIsHedged ==
    [][(/\ Delivers
        /\ Head(venue.msgs).fill_qty > 0
        /\ MarketMaking(Head(venue.msgs).id)
        /\ RequestId(Head(venue.msgs).id) \in DOMAIN standx.active_orders)
       => Len(tasks') = Len(tasks) + 1]_vars

\* C3: a fill notification for a market-making order that cancel_orders has
\* cancelled in the meantime, and that no handler has hedged yet, starts the
\* hedge handler.
C3_FillBeatsCancel ==
    [][(/\ Delivers
        /\ Head(venue.msgs).fill_qty > 0
        /\ MarketMaking(Head(venue.msgs).id)
        /\ venue.orders[Head(venue.msgs).id].status = "cancelled"
        /\ Head(venue.msgs).id \notin standx.processed_fills
        /\ TasksOf(Head(venue.msgs).id) = {})
       => \E i \in 1..Len(tasks') : tasks'[i].order_id = Head(venue.msgs).id]_vars

\* C4: at most one place_hedge_order call is between its price selection and
\* its update of current_position.
C4_HedgeSectionsExclusive ==
    Cardinality({i \in TaskIds : tasks[i].pc \in {"bbo", "create"}}) <= 1

\* C5: when two overlapping place_hedge_order calls on the same side have
\* both succeeded, the tracked Lighter position is its value before them plus
\* the two signed quantities.
C5_ConcurrentHedgesAddUp ==
    (/\ window.open = 0
     /\ window.overlap
     /\ window.n = 2
     /\ ~window.failed
     /\ Cardinality(window.sides) = 1)
    => window.after = window.base + window.sum

Failed(i) == tasks[i].pc = "done" /\ tasks[i].hedged = "failed"

\* C6: a fill whose hedge placement has terminally failed has the
\* emergency-stop flag set, gets no further hedge attempt and no close
\* order from its handler.  The handler gives up at the first failed
\* attempt, so the statement covers every number of consecutive failures,
\* three included: no handler ever makes a second call.
C6_FailedHedgeStops ==
    \A i \in TaskIds :
        Failed(i) => /\ risk.emergency_stop
                     /\ tasks[i].calls = 1
                     /\ tasks[i].submitted <= 1
                     /\ tasks[i].close_id = 0
                     /\ tasks[i].close_mark = 0 - 1

C6_Witness == \E i \in TaskIds : Failed(i) /\ tasks[i].submitted = 1

\* C7: a fill handled while its size exceeds max_position_size, the daily
\* loss limit is reached or the emergency stop is already set gets no hedge
\* order, and the emergency-stop flag is set afterwards.
C7_RiskRefusalStops ==
    \A i \in TaskIds :
        (/\ tasks[i].pc # "scheduled"
         /\ \/ tasks[i].qty > max_position_size
            \/ tasks[i].stop_at_start
            \/ risk.daily_pnl <= 0 - risk.max_daily_loss)
        => /\ tasks[i].calls = 0
           /\ tasks[i].submitted = 0
           /\ tasks[i].hedged = "no"
           /\ tasks[i].close_id = 0
           /\ risk.emergency_stop

C7_Witness ==
    /\ \E i \in TaskIds : tasks[i].pc = "done" /\ tasks[i].qty > max_position_size
    /\ \E i \in TaskIds : tasks[i].pc = "done" /\ tasks[i].stop_at_start

\* notifications the stream can carry about an order id
Notifications ==
    [id : 1..(MaxOrders + 1), status : {"open", "filled", "cancelled"}, side : Sides,
     price : Marks, qty : {order_size}, fill_qty : 0..order_size]

SmUntracked(order_id) ==
    \/ order_id \notin DOMAIN sm.order_id_map
    \/ \A i \in 1..Len(sm.orders) : sm.orders[i].cl_ord_id # sm.order_id_map[order_id]

\* C8: a fill for an order id that is not tracked changes nothing and hedges
\* nothing: on_order_filled returns None and leaves the StateMachine as it
\* was; _on_ws_order_update leaves active_orders, processed_fills and
\* close_order_ids as they were and schedules no handler.
C8_UntrackedFillIsIgnored ==
    /\ \A order_id \in SmOrderIds \cup {MaxOrders + 1}, filled_qty \in 1..SmQuantity :
          SmUntracked(order_id)
          => on_order_filled(sm, order_id, filled_qty) = [sm EXCEPT !.ret = 0]
    /\ \A m \in Notifications :
          m.id \notin DOMAIN standx.active_orders
          => on_ws_order_update(World, m) = World

C8_Witness ==
    /\ sm.ret = 0
    /\ sm.orders # <<>>
    /\ Foreign \in delivered
    /\ tasks = <<>>

\* C9: at most one close order is open on the StandX venue.
C9_AtMostOneCloseOrder ==
    Cardinality({n \in OpenIds(World) : venue.orders[n].is_close}) <= 1

Hedged(i) == tasks[i].pc = "done" /\ tasks[i].hedged = "ok"

\* C10: after a hedged fill on side s the handler's close order has the
\* opposite side and the filled quantity, its price is the integer part of
\* mark + mark * close_spread_pct for a sell and of
\* mark - mark * close_spread_pct for a buy; with a mark price that is not
\* positive no close order is placed.
C10_CloseOrderTerms ==
    \A i \in TaskIds :
        Hedged(i) =>
            IF tasks[i].close_mark <= 0 THEN tasks[i].close_id = 0
            ELSE tasks[i].close_id # 0 =>
                 LET o == venue.orders[tasks[i].close_id]
                     mark == tasks[i].close_mark
                     above == mark * (PctDen + close_spread_pct)
                     below == mark * (PctDen - close_spread_pct)
                 IN /\ o.is_close
                    /\ o.side = Opposite(tasks[i].side)
                    /\ o.qty = tasks[i].qty
                    /\ o.side = "sell" =>
                          o.price * PctDen <= above /\ above < (o.price + 1) * PctDen
                    /\ o.side = "buy" =>
                          o.price * PctDen <= below /\ below < (o.price + 1) * PctDen

C10_Witness ==
    /\ \E i \in TaskIds : Hedged(i) /\ tasks[i].close_id # 0 /\ tasks[i].side = "buy"
    /\ \E i \in TaskIds : Hedged(i) /\ tasks[i].close_id # 0 /\ tasks[i].side = "sell"

\* the step is the one in which check_and_manage_close_orders resumes
ManageResumes == loop.pc = "m_pos" /\ loop'.pc # "m_pos"

\* the close order the bot tracks is open on the venue
CloseOrderOpen == bot.close_order_cl_ord_id \in OpenIds(World)

\* no cancel reaches the venue, no order is placed, and the three tracking
\* fields keep their values
CloseOrderFrame ==
    /\ venue'.orders = venue.orders
    /\ venue'.msgs = venue.msgs
    /\ bot'.close_order_cl_ord_id = bot.close_order_cl_ord_id
    /\ bot'.close_order_price = bot.close_order_price
    /\ bot'.close_order_side = bot.close_order_side

\* check_and_manage_close_orders resumes with the Lighter position; the
\* close order it tracks was tracked when it was called and is open on the
\* venue
ManageWithOpenCloseOrder ==
    /\ loop.pc = "m_pos"
    /\ bot.close_order_cl_ord_id # 0
    /\ loop.tracked_at_call = bot.close_order_cl_ord_id
    /\ bot.close_order_price # 0
    /\ bot.close_order_side # "none"
    /\ CloseOrderOpen

\* C12: with the tracked close order open on the venue and the
\* mark price not beyond close_update_threshold on the favourable side,
\* check_and_manage_close_orders cancels nothing, places nothing and leaves
\* close_order_cl_ord_id, close_order_price and close_order_side unchanged.
C12_TrackedCloseOrderFrame ==
    [][(ManageWithOpenCloseOrder /\ ManageResumes /\ ~NeedsAdjustment(World, venue.mark))
       => CloseOrderFrame]_vars

\* the close order the bot tracks has left the venue's open orders with
\* nothing filled
CloseOrderGoneUnfilled ==
    /\ bot.close_order_cl_ord_id \in 1..Len(venue.orders)
    /\ bot.close_order_price # 0
    /\ bot.close_order_side # "none"
    /\ venue.orders[bot.close_order_cl_ord_id].status = "cancelled"
    /\ venue.orders[bot.close_order_cl_ord_id].fill_qty = 0

\* check_and_manage_close_orders resumes with its tracked close order gone
\* from the venue unfilled and the StandX position not zero (and the venue
\* of the model has room for one more order)
ManageAfterCancel ==
    /\ ManageResumes
    /\ CloseOrderGoneUnfilled
    /\ venue.position # 0
    /\ Len(venue.orders) < MaxOrders

\* the step places and tracks a close order for the absolute position, sell
\* for a long position and buy for a short one
ReplacedForPosition ==
    /\ Len(venue'.orders) = Len(venue.orders) + 1
    /\ LET o == venue'.orders[Len(venue'.orders)]
       IN /\ o.is_close
          /\ o.status = "open"
          /\ o.qty = Abs(venue.position)
          /\ venue.position > 0 => o.side = "sell"
          /\ venue.position < 0 => o.side = "buy"
          /\ o.price = ClosePrice(o.side, venue.mark)
          /\ bot'.close_order_side = o.side
    /\ bot'.close_order_cl_ord_id = ClOrdId(Len(venue'.orders))

\* C13: when check_and_manage_close_orders runs with its tracked close order
\* gone from the venue unfilled and the StandX position not zero, it places
\* and tracks a close order for the absolute position on the flattening side
\* (sell for long, buy for short).
C13_CancelledCloseOrderIsReplaced == [][ManageAfterCancel => ReplacedForPosition]_vars

\* C14: while the Lighter position keeps its size, nothing removes that
\* size from lighter_close_blocked and nothing removes or lowers its attempt
\* counter.
C14_CounterKeptWhilePositionOpen ==
    [][\A k \in DOMAIN bot.lighter_close_attempts :
          (k # 0 /\ lx.position = k /\ lx'.position = k)
          => /\ k \in DOMAIN bot'.lighter_close_attempts
             /\ bot'.lighter_close_attempts[k] >= bot.lighter_close_attempts[k]
             /\ k \in bot.lighter_close_blocked => k \in bot'.lighter_close_blocked]_vars

ClhPcs == {"clh_bbo", "clh_create", "clh_sleep2", "clh_pos"}

\* what is left of a close_lighter_hedge call: attempts, then steps of the
\* current attempt
ClhRank(lp) ==
    (max_retries - lp.attempt) * 4
    + (CASE lp.pc = "clh_bbo" -> 3 [] lp.pc = "clh_create" -> 2
         [] lp.pc = "clh_sleep2" -> 1 [] OTHER -> 0)

\* C15: close_lighter_hedge runs only for a position that is not zero, makes
\* at most max_retries attempts and create_market_order calls, and every
\* step of it either ends the call or brings it nearer to its end; an
\* accepted order is followed by a position query; an order the venue
\* executes on an unchanged position closes it (opposite side, full
\* quantity); a position read as zero ends the call.
C15_CloseLighterHedgeBounded ==
    [][/\ loop'.pc \in ClhPcs
          => /\ loop'.lighter_pos # 0
             /\ loop'.attempt \in 1..max_retries
             /\ loop'.submitted <= loop'.attempt
             /\ loop'.submitted <= max_retries
       /\ (loop.pc \in ClhPcs /\ loop' # loop)
          => \/ loop'.pc \notin ClhPcs
             \/ /\ ClhRank(loop') < ClhRank(loop)
                /\ loop'.lighter_pos = loop.lighter_pos
       /\ (loop.pc = "clh_create" /\ loop'.pc = "clh_sleep2")
          => /\ loop'.submitted = loop.submitted + 1
             /\ (/\ ~lx.stuck
                 /\ budget'.faults = budget.faults
                 /\ lx.position = loop.lighter_pos) => lx'.position = 0
       /\ (loop.pc = "clh_sleep2" /\ loop' # loop)
          => /\ loop'.pc = "clh_pos"
             /\ loop'.snap_ok => loop'.snap = lx.position
       /\ (loop.pc = "clh_pos" /\ loop' # loop /\ LighterAnswer = 0)
          => loop'.pc \notin ClhPcs
       /\ (loop.pc \notin ClhPcs /\ loop'.pc \in ClhPcs)
          => loop'.pc = "clh_bbo" /\ loop'.attempt = 1 /\ loop'.submitted = 0]_vars

\* a call has made its last attempt: three orders accepted, the position
\* still open; and a call has closed a position with an executed order
C15_Witness ==
    /\ loop.pc = "clh_pos"
    /\ loop.attempt = max_retries
    /\ loop.submitted = max_retries
    /\ lx.position # 0

\* C16: no fill-handler task is ever created for an order that
\* place_close_order placed.
C16_CloseOrderFillNotHedged ==
    \A i \in TaskIds : ~venue.orders[tasks[i].order_id].is_close

\* C17: an iteration's check_and_update_orders (the loop is at the top of
\* an iteration, no emergency stop) never cancels the tracked close order
\* of an open position: the order is still open on the venue afterwards.
C17_CloseOrderSurvivesReplace ==
    [][(loop.pc = "tick" /\ loop'.pc # "tick" /\ ~risk.emergency_stop
        /\ venue.position # 0 /\ CloseOrderOpen
        /\ venue.orders[bot.close_order_cl_ord_id].is_close)
       => venue'.orders[bot.close_order_cl_ord_id].status # "cancelled"]_vars

\* the quantity the successful handlers of order n hedged
RECURSIVE HedgedQty(_, _)
HedgedQty(n, i) ==
    IF i = 0 THEN 0
    ELSE HedgedQty(n, i - 1)
         + (IF tasks[i].order_id = n /\ Hedged(i) THEN tasks[i].qty ELSE 0)

\* every notification of order n is processed and every handler it
\* started has hedged successfully
FillsSettled(n) ==
    /\ \A k \in 1..Len(venue.msgs) : venue.msgs[k].id # n
    /\ TasksOf(n) # {}
    /\ \A i \in TasksOf(n) : Hedged(i)

\* C18: once the fill notifications of a market-making order are processed
\* and its hedges have completed successfully, the quantity hedged equals
\* the order's final cumulative filled quantity.
C18_HedgedEqualsFilled ==
    \A n \in 1..Len(venue.orders) :
        (MarketMaking(n) /\ n \notin OpenIds(World) /\ FillsSettled(n))
            => HedgedQty(n, Len(tasks)) = venue.orders[n].fill_qty

\* C19: once the emergency-stop flag is set, no step submits a new order
\* to StandX.
C19_NoOrderAfterEmergencyStop ==
    [][risk.emergency_stop => Len(venue'.orders) = Len(venue.orders)]_vars

\* the step of run()'s iteration a position of the loop belongs to
StepOf(pc) ==
    IF pc \in {"start", "tick", "replace"} THEN "check_and_update_orders"
    ELSE IF pc = "status" THEN "print_status_if_needed"
    ELSE IF pc \in {"stopped", "off"} THEN pc
    ELSE "check_and_manage_close_orders"

\* C20: once the emergency-stop flag is set, the loop finishes the step it
\* is in and starts no other step of the iteration: it stays in the step,
\* reaches the end of the iteration or has shut down.
C20_NoFurtherStepAfterEmergencyStop ==
    [][risk.emergency_stop =>
         \/ StepOf(loop'.pc) = StepOf(loop.pc)
         \/ loop'.pc \in {"tick", "stopped"}]_vars

\* C21: a confirmation for a tracked order that already has a venue id
\* leaves the order's venue id, the order's state and the reverse index
\* as they were, whatever venue id it carries.
C21_RepeatConfirmationIsNoOp ==
    \A cl_ord_id \in SmClOrdIds, order_id \in SmOrderIds :
        LET i == get_order(sm, cl_ord_id)
            m == on_order_confirmed(sm, cl_ord_id, order_id)
        IN (i # 0 /\ sm.orders[i].order_id # 0)
               => /\ m.orders[i].order_id = sm.orders[i].order_id
                  /\ m.orders[i].state = sm.orders[i].state
                  /\ m.order_id_map = sm.order_id_map

\* C22: a cancel notification for an order with a recorded fill leaves the
\* order tracked, in the state the fill gave it.
C22_FilledOrderSurvivesCancel ==
    \A order_id \in SmOrderIds :
        LET i == get_order_by_id(sm, order_id)
            m == on_order_cancelled(sm, order_id)
        IN (i # 0 /\ sm.orders[i].filled_qty > 0
                  /\ sm.orders[i].state \in {"PARTIAL_FILLED", "FILLED"})
               => LET j == get_order(m, sm.orders[i].cl_ord_id)
                  IN j # 0 /\ m.orders[j].state \in {"PARTIAL_FILLED", "FILLED"}

\* C23: every tracked order has filled_qty <= quantity.
C23_FilledWithinQuantity ==
    \A i \in 1..Len(sm.orders) : sm.orders[i].filled_qty <= sm.orders[i].quantity

\* the orders of m in a terminal state
Terminal(m) == {i \in 1..Len(m.orders) : m.orders[i].state \in {"FILLED", "CANCELLED"}}

\* C24: once a fill has been resolved by on_close_order_filled or by
\* on_position_closed, no order in a terminal state is tracked.
C24_TerminalOrdersEvicted ==
    /\ Terminal(on_close_order_filled(sm)) = {}
    /\ Terminal(on_position_closed(sm)) = {}

\* a sync_open_orders that finds processed_fills above its ceiling and
\* cuts it
ProcessedFillsCut ==
    /\ Cardinality(standx.processed_fills) + standx.processed_older > PROCESSED_FILLS_CEILING
    /\ standx'.processed_older # standx.processed_older

\* C25: a cut of processed_fills leaves PROCESSED_FILLS_KEEP ids and evicts
\* the oldest: the ids admitted in this run, the most recent ones, are
\* all retained.
C25_CutKeepsMostRecent ==
    [][ProcessedFillsCut =>
          /\ Cardinality(standx'.processed_fills) + standx'.processed_older
                 = PROCESSED_FILLS_KEEP
          /\ standx.processed_fills \subseteq standx'.processed_fills]_vars

\* C26: the machine leaves PLACING for MARKET_MAKING only when no id of
\* the batch given to on_placing_orders is still waiting for its
\* confirmation.
C26_MarketMakingOnlyWhenAllConfirmed ==
    [][(sm.state = "PLACING" /\ sm'.state = "MARKET_MAKING")
          => sm'.pending_mm_orders = {}]_vars

\* C27: a machine whose PLACING state is older than PLACING_TIMEOUT, and
\* on which the timeout test of can_place_orders has answered, is in
\* MARKET_MAKING.  (can_place_orders assigns nothing: the state after the
\* call is the state before it.)
C27_StalePlacingIsReleased ==
    (sm.stale /\ can_place_orders(sm)) => sm.state = "MARKET_MAKING"

\* C28: a CANCELLING state that still waits for a confirmation and is
\* older than CANCELLING_TIMEOUT does not outlast the next call on the
\* machine: the call leaves the machine out of CANCELLING.
C28_StaleCancellingIsReleased ==
    [][(sm.state = "CANCELLING" /\ sm.stale /\ sm.pending_cancel_orders # {}
        /\ UNCHANGED BotVars /\ sm' # sm)
          => sm'.state # "CANCELLING"]_vars

\* C29: in CANCELLING, a cancel request for a cl_ord_id that is already
\* waiting for its cancel confirmation changes neither the pending-cancel
\* set nor a tracked order nor the bot state.
C29_RepeatCancelIsNoOp ==
    sm.state = "CANCELLING" =>
        \A cl_ord_id \in sm.pending_cancel_orders :
            LET m == on_cancelling_orders(sm, {cl_ord_id})
            IN /\ m.pending_cancel_orders = sm.pending_cancel_orders
               /\ m.orders = sm.orders
               /\ m.state = sm.state

\* C30: the machine never moves from HEDGING to CANCELLING.
C30_NoCancellingFromHedging ==
    [][~(sm.state = "HEDGING" /\ sm'.state = "CANCELLING")]_vars

\* the ledger m after a resolution: no close order is tracked, and the state
\* is MARKET_MAKING when a maker order is tracked and IDLE otherwise
Resolved(m) ==
    /\ \A i \in 1..Len(m.orders) : ~m.orders[i].is_close_order
    /\ m.state = IF get_market_making_orders(m) # {} THEN "MARKET_MAKING" ELSE "IDLE"

\* C31: on_close_order_filled and on_position_closed both leave the ledger
\* without a close order, in MARKET_MAKING if a maker order remains tracked
\* and in IDLE otherwise.
C31_ResolutionRule ==
    /\ Resolved(on_close_order_filled(sm))
    /\ Resolved(on_position_closed(sm))

\* C32: is_ready is true only while _run_loop is listening on a connection
\* it holds: it is false during a connection attempt, during the backoff
\* after a drop or an error, and once the loop has ended.
C32_ReadyOnlyWhileListening ==
    is_ready(wsm) => wsm.pc = "recv"

\* _run_loop sits in its backoff, in the close that follows a failed send
\* or recv, or in recv on a socket that is closed
WsmFailed == wsm.pc \in {"sleep", "closing"} \/ (wsm.pc = "recv" /\ ~wsm.open)

\* C33: while the manager is running, every drop, receive error and failed
\* connection attempt is followed by a new connection attempt; _run_loop
\* ends only with the running flag cleared, and once stop() has been
\* called it does end.
C33_ReconnectsUntilStopped ==
    /\ (wsm.running /\ WsmFailed) ~> (wsm.pc = "connect" \/ ~wsm.running)
    /\ [][wsm'.pc = "ended" => ~wsm'.running]_vars
    /\ (wsm.stop # "none") ~> (wsm.pc = "ended")

\* a connection attempt after an earlier connection was lost
C33_Witness ==
    wsm.running /\ wsm.pc = "connect" /\ wsm.ws # 0

\* check_and_manage_close_orders resumes with a non-zero StandX position
\* queried and no close order tracked (and the venue of the model has room
\* for one more order)
ManageUntracked ==
    /\ ManageResumes
    /\ loop.standx_pos # 0
    /\ bot.close_order_cl_ord_id = 0
    /\ Len(venue.orders) < MaxOrders

\* the step placed a close order for the queried position, on the
\* flattening side, tracks it, and did nothing on Lighter
PlacedForQueriedPosition ==
    LET n == Len(venue'.orders)
    IN /\ n = Len(venue.orders) + 1
       /\ venue'.orders[n].is_close
       /\ venue'.orders[n].status = "open"
       /\ venue'.orders[n].qty = Abs(loop.standx_pos)
       /\ venue'.orders[n].side = (IF loop.standx_pos > 0 THEN "sell" ELSE "buy")
       /\ bot'.close_order_cl_ord_id = ClOrdId(n)
       /\ lx' = lx
       /\ loop'.pc \notin ClhPcs

\* C34: a non-zero StandX position with no close order tracked makes
\* check_and_manage_close_orders place, in the same tick, a close order of
\* the absolute position on the flattening side, and it does not try to
\* close the Lighter position.
C34_UntrackedPositionGetsCloseOrder ==
    [][ManageUntracked => PlacedForQueriedPosition]_vars

\* the resumed check_and_manage_close_orders treats the position as flat:
\* it clears the tracking of its close order, or goes to close the Lighter
\* hedge because the close order is gone
TreatsAsFlat ==
    /\ ManageResumes
    /\ bot.close_order_cl_ord_id # 0
    /\ \/ bot'.close_order_cl_ord_id = 0
       \/ loop'.pc \in ClhPcs /\ loop'.after = "B"

\* C35: check_and_manage_close_orders clears its close-order tracking or
\* closes the Lighter hedge only when the StandX position at the venue is
\* zero.
C35_FlatOnlyWhenReallyFlat ==
    [][TreatsAsFlat => venue.position = 0]_vars

\* C36: when a close order is tracked and close_order_id is set,
\* close_order_id is a key of the tracked order: order n is keyed by its
\* venue id n or by its placement request id RequestId(n), and its cl_ord_id
\* is ClOrdId(n); it is never the key of an earlier close order.
C36_CloseOrderIdIsCurrent ==
    (bot.close_order_cl_ord_id # 0 /\ bot.close_order_id # 0)
        => \E n \in 1..MaxOrders :
              /\ bot.close_order_id \in {n, RequestId(n)}
              /\ bot.close_order_cl_ord_id = ClOrdId(n)

\* the worlds in which the iteration about to run calls cancel_orders: the
\* shutdown after an emergency stop, or check_and_update_orders after its
\* sync when an order is too close to the mark price
SyncedWorld(x) == sync_open_orders(get_ticker(World, x[1]), x[2], x[3])

CancelInputs ==
    IF loop.pc # "tick" THEN {}
    ELSE IF risk.emergency_stop THEN {World}
    ELSE {SyncedWorld(x) :
            x \in {y \in TickerMarks \X Oks \X KeepChoices(World) :
                     /\ y[1] > 0
                     /\ DOMAIN SyncedWorld(y).standx.active_orders # {}
                     /\ TooClose(SyncedWorld(y), y[1])}}

\* C37: cancel_orders drops a key from active_orders only if it sent a
\* cancel request for it: a key that is a placement request id is not
\* dropped while its order is open on the venue, and a call that returns
\* False leaves active_orders as it was.
C37_DropsOnlyWhatWasCancelled ==
    \A w \in CancelInputs : \A ok \in Oks :
        LET r == cancel_orders(w, ok)
            dropped == DOMAIN w.standx.active_orders \ DOMAIN r.standx.active_orders
        IN /\ \A k \in dropped :
                 NumericId(k) \/ r.venue.orders[0 - k].status # "open"
           /\ (r.ret = 0 => r.standx.active_orders = w.standx.active_orders)

\* C38: the ledger's two indexes agree: every venue id of _order_id_map
\* leads to a tracked order whose order_id is that id, and every tracked
\* order that has a venue id is the order get_order_by_id returns for it.
C38_LedgerIndexesAgree ==
    /\ \A id \in DOMAIN sm.order_id_map :
          LET i == get_order(sm, sm.order_id_map[id])
          IN i # 0 /\ sm.orders[i].order_id = id
    /\ \A i \in 1..Len(sm.orders) :
          sm.orders[i].order_id # 0 => get_order_by_id(sm, sm.orders[i].order_id) = i

LiveStates == {"PENDING", "OPEN", "PARTIAL_FILLED", "CANCELLING"}

\* C39: the machine never goes from CANCELLING to IDLE while a tracked
\* order is live (PENDING, OPEN, PARTIAL_FILLED or CANCELLING): the step
\* that ends a waiting cancel batch leaves no live order behind in IDLE.
C39_NoLiveOrderOnEnteringIdle ==
    [][(sm.state = "CANCELLING" /\ sm.pending_cancel_orders # {} /\ sm'.state = "IDLE")
          => \A i \in 1..Len(sm'.orders) : sm'.orders[i].state \notin LiveStates]_vars

\* C40: on_placing_orders opens a fresh PLACING window: right after the
\* call, with its orders unconfirmed and no time elapsed, can_place_orders
\* answers False, whatever the state of the machine before the call.
C40_FreshPlacingWindow ==
    \A cl_ord_ids \in SUBSET SmClOrdIds \ {{}} :
        ~can_place_orders(on_placing_orders(sm, cl_ord_ids))
====
